---------------------------- MODULE Spec2Model ----------------------------
(***************************************************************************)
(* Model of the query-finalization operators of the worker:                *)
(*   - LimitOperator / SkipScanner   (operators/limit.rs)                  *)
(*   - MergeMetadataResultsOperator  (operators/merge_metadata_results.rs) *)
(*                                                                         *)
(* Each operator run is a small sequential program.  One action models one *)
(* step of the run (one match arm, one loop iteration).  The inputs of a   *)
(* run are drawn in the initial state from bounded sets.                   *)
(***************************************************************************)
EXTENDS Integers, Sequences, FiniteSets, TLC

(***************************************************************************)
(* Bounds of the model.                                                    *)
(***************************************************************************)
\* offset ids range over 1..MaxId
MaxId == 3
\* LimitOperator.skip ranges over 0..MaxSkip
MaxSkip == 3
\* LimitOperator.fetch ranges over None and Some(0..MaxFetch)
MaxFetch == 2
\* current_max_offset_id ranges over max(S)..max(S)+MaxSlack
MaxSlack == 1
\* MergeAndHydrate: offset ids range over 1..MaxOid
MaxOid == 2
\* MergeAndHydrate: input.offset ranges over None and Some(0..MaxOffset)
MaxOffset == 2
\* MergeAndHydrate: input.limit ranges over None and Some(0..MaxLimit)
MaxLimit == 2

Ids == 1..MaxId

(***************************************************************************)
(* Option<T>                                                               *)
(***************************************************************************)
None == [some |-> FALSE, v |-> 0]
Some(x) == [some |-> TRUE, v |-> x]

(***************************************************************************)
(* usize / u32 arithmetic.  TLC integers are narrower than usize, so the   *)
(* modulus 2^64 is scaled to UsizeModulus and u32::MAX to U32Max; every    *)
(* other quantity of the model is far below both, which keeps all          *)
(* comparisons and differences as they are at full width.                  *)
(***************************************************************************)
UsizeModulus == 2^30
U32Max == 2^20 - 1

\* a - b on usize in a build without overflow checks
WrappingSub(a, b) == (a - b) % UsizeModulus
\* a - b overflows
SubOverflows(a, b) == a < b

Min(a, b) == IF a <= b THEN a ELSE b
Max(a, b) == IF a >= b THEN a ELSE b

(***************************************************************************)
(* RoaringBitmap, as a finite set of u32.                                  *)
(***************************************************************************)
\* RoaringBitmap::rank: number of elements <= x
Rank(rbm, x) == Cardinality({y \in rbm : y <= x})
\* RoaringBitmap::contains as usize
Contains(rbm, x) == IF x \in rbm THEN 1 ELSE 0
\* RoaringBitmap::select: the n-th smallest element (0-based), if any
Select(rbm, n) ==
    IF n < Cardinality(rbm)
    THEN Some(CHOOSE x \in rbm : Cardinality({y \in rbm : y < x}) = n)
    ELSE None
\* RoaringBitmap::max().unwrap_or(0)
MaxOrZero(rbm) == IF rbm = {} THEN 0 ELSE CHOOSE x \in rbm : \A y \in rbm : y <= x
\* RoaringBitmap::remove_smallest(n)
\* variant: removes one id more than asked
RemoveSmallestOffByOne(rbm, n) == {x \in rbm : Cardinality({y \in rbm : y < x}) > n}
RemoveSmallest(rbm, n) == {x \in rbm : Cardinality({y \in rbm : y < x}) >= n}
\* rbm.into_iter().take(n).collect()
\* variant: keeps one id more than asked
TakeOneMore(rbm, n) == {x \in rbm : Cardinality({y \in rbm : y < x}) <= n}
Take(rbm, n) == {x \in rbm : Cardinality({y \in rbm : y < x}) < n}
\* RoaringBitmap::from_sorted_iter succeeds iff the values are strictly ascending
IsStrictlyAscending(s) == \A i \in 1..(Len(s) - 1) : s[i] < s[i + 1]
Elems(s) == {s[i] : i \in 1..Len(s)}

(***************************************************************************)
(* RecordSegmentReader over a compacted segment holding the offset ids     *)
(* `ids`.  A reader is a record [ids, current_max_offset_id].              *)
(***************************************************************************)
\* RecordSegmentReader::count
Count(reader) == Cardinality(reader.ids)
\* RecordSegmentReader::get_offset_id_rank: number of ids strictly less than target
GetOffsetIdRank(reader, target) == Cardinality({y \in reader.ids : y < target})
\* RecordSegmentReader::get_offset_id_at_index, for an index below count()
GetOffsetIdAtIndex(reader, index) ==
    CHOOSE x \in reader.ids : Cardinality({y \in reader.ids : y < x}) = index
\* RecordSegmentReader::get_all_offset_ids: ascending vector of all ids
RECURSIVE SortedVec(_)
SortedVec(set) ==
    IF set = {} THEN <<>>
    ELSE LET m == CHOOSE x \in set : \A y \in set : x <= y
         IN  <<m>> \o SortedVec(set \ {m})


(***************************************************************************)
(* SignedRoaringBitmap and the materialized log.                           *)
(***************************************************************************)
Include(rbm) == [tag |-> "Include", rbm |-> rbm]
Exclude(rbm) == [tag |-> "Exclude", rbm |-> rbm]

\* A materialized log record: [offset_id, final_operation, payload].
\* payload "full": the merged projection has metadata and a document;
\* payload "bare": the merged metadata map is empty and there is no document.
MatRecord(o, op, p) == [offset_id |-> o, final_operation |-> op, payload |-> p]

NoReader == [some |-> FALSE, v |-> [ids |-> {}, current_max_offset_id |-> 0]]

VARIABLES
    pc,                          \* position of the run
    result,                      \* "" while running, then Ok / Err:.. / Panic:..
    overflow_checks,             \* the build panics on integer overflow (debug) or wraps
    \* ---- LimitInput and LimitOperator
    logs,                        \* materialized records of input.logs
    segments,                    \* Option<RecordSegmentReader> of input.segments
    log_offset_ids,              \* input.log_offset_ids
    compact_offset_ids,          \* input.compact_offset_ids
    skip,                        \* self.skip
    fetch,                       \* self.fetch : Option<u32>
    \* ---- locals of LimitOperator::run and SkipScanner
    materialized_log_offset_ids, \* run: materialized_log_offset_ids / scanner.log_offset_ids
    scan_skip,                   \* seek_and_scan: skip
    scan_fetch,                  \* seek_and_scan: mut fetch
    record_count,                \* seek_and_scan: record_count
    size,                        \* seek_starting_index: size
    base,                        \* seek_starting_index: base
    log_index,                   \* seek_and_scan: log_index
    record_index,                \* seek_and_scan: record_index
    merged_result,               \* seek_and_scan: merged_result
    offset_ids,                  \* LimitOutput.offset_ids
    \* ---- what a Limit run did to the segment and what its caller keeps
    failed_call,                 \* "" or the fallible call that returned Err
    select_calls,                \* indices get_offset_id_at_index was called with
    run_no,                      \* 1, or 2 when the caller runs the operator again
    first_run,                   \* what the caller kept of the first run
    \* ---- MergeMetadataResultsOperatorInput
    record_segment_definition,   \* the segment in storage: [creation, ids]
    mat_records,                 \* materialized records of input.filtered_log
    user_offset_ids,             \* input.user_offset_ids : Option<Vec<u32>>
    filtered_offset_ids,         \* input.filtered_offset_ids : Option<Vec<u32>>
    offset,                      \* input.offset : Option<u32>
    limit,                       \* input.limit : Option<u32>
    include_metadata,            \* input.include_metadata
    \* ---- locals of MergeMetadataResultsOperator::run
    record_segment_reader,       \* Option<RecordSegmentReader>
    merged_offset_ids,           \* merged_offset_ids
    skip_count,                  \* skip_count
    take_count,                  \* take_count
    truncated_offset_id_order,   \* HashMap<u32, usize>, positions counted from 1
    ids,                         \* output ids
    metadata,                    \* output metadata
    documents,                   \* output documents
    logged_offset_ids,           \* HashSet<u32> of the offset ids met in the log pass
    visited,                     \* offset ids the segment pass has been through
    segment_reads                \* the calls the run made to the reader

limit_inputs == <<logs, segments, log_offset_ids, compact_offset_ids, skip, fetch,
                  overflow_checks>>
scanner_locals == <<scan_skip, scan_fetch, record_count, size, base, log_index,
                    record_index, merged_result>>
limit_locals == <<materialized_log_offset_ids, scanner_locals, offset_ids>>
history == <<failed_call, select_calls>>
caller == <<run_no, first_run>>
limit_vars == <<limit_inputs, limit_locals, history, caller>>

merge_inputs == <<record_segment_definition, mat_records, user_offset_ids,
                  filtered_offset_ids, offset, limit, include_metadata>>
merge_window == <<merged_offset_ids, skip_count, take_count, truncated_offset_id_order>>
merge_output == <<ids, metadata, documents>>
merge_locals == <<record_segment_reader, merge_window, merge_output, logged_offset_ids,
                  visited, segment_reads>>
merge_vars == <<merge_inputs, merge_locals>>

(***************************************************************************)
(* Fallible calls of a Limit run.  Every call to the segment and to the    *)
(* materializer is awaited with `?`: an Err ends the run with the          *)
(* LimitError it converts to (limit.rs 39-47).                             *)
(***************************************************************************)
\* variant: every failure reported as a record segment error
LimitErrorFromAnyCall(call) == "Err:RecordSegment"
LimitErrorFrom(call) ==
    IF call = "record_segment_reader" THEN "Err:FetchSegment"
    ELSE IF call = "materialize" THEN "Err:LogMaterializer"
    ELSE "Err:RecordSegment"

\* the `?` on an Err: the run returns the converted error
Fail(call) ==
    /\ pc' = "done"
    /\ result' = LimitErrorFrom(call)
    /\ failed_call' = call

\* limit.rs 178: input.segments.record_segment_reader().await?
ReaderFails ==
    /\ pc = "run"
    /\ Fail("record_segment_reader")
    /\ UNCHANGED <<limit_inputs, limit_locals, select_calls, caller, merge_vars>>

\* limit.rs 186-189: materializer.materialize().await?
MaterializeFails ==
    /\ pc = "run"
    /\ log_offset_ids.tag = "Exclude"
    /\ Fail("materialize")
    /\ UNCHANGED <<limit_inputs, limit_locals, select_calls, caller, merge_vars>>

\* limit.rs 218 and 128: reader.count().await?
CountFails ==
    /\ \/ pc = "dispatch" /\ compact_offset_ids.tag = "Exclude" /\ segments.some
       \/ pc = "seek_and_scan"
    /\ Fail("count")
    /\ UNCHANGED <<limit_inputs, limit_locals, select_calls, caller, merge_vars>>

\* limit.rs 79 and 118: get_offset_id_rank(..).await?
RankFails ==
    /\ pc = "seek"
    /\ Fail("get_offset_id_rank")
    /\ UNCHANGED <<limit_inputs, limit_locals, select_calls, caller, merge_vars>>

(***************************************************************************)
(* LimitOperator::run, log side (limit.rs 180-203)                         *)
(***************************************************************************)
\* offset ids of the materialized records that are not DeleteExisting
\* variant: the deleted records kept
ActiveDomainKeepDeleted(materialized_logs) ==
    {log.offset_id : log \in materialized_logs}
ActiveDomain(materialized_logs) ==
    {log.offset_id : log \in {l \in materialized_logs :
                                  l.final_operation # "DeleteExisting"}}

\* variant: the log side always resolved from the materialized records
MaterializedLogOffsetIdsFromLogs(signed, materialized_logs) ==
    ActiveDomain(materialized_logs) \ signed.rbm
MaterializedLogOffsetIds(signed, materialized_logs) ==
    IF signed.tag = "Include"
    THEN signed.rbm
    ELSE ActiveDomain(materialized_logs) \ signed.rbm

ResolveLog ==
    /\ pc = "run"
    /\ materialized_log_offset_ids' = MaterializedLogOffsetIds(log_offset_ids, logs)
    /\ pc' = "dispatch"
    /\ UNCHANGED <<result, limit_inputs, scanner_locals, offset_ids>>
    /\ UNCHANGED <<history, caller, merge_vars>>

(***************************************************************************)
(* LimitOperator::run, compact side (limit.rs 205-250)                     *)
(***************************************************************************)
\* limit.rs 207-215 and 234-242: drop the smallest skip ids, keep at most fetch
SkipAndTake(oids, sk, fe) ==
    LET rest == RemoveSmallest(oids, sk)
    IN  IF fe.some THEN Take(rest, fe.v) ELSE rest

DispatchInclude ==
    /\ pc = "dispatch"
    /\ compact_offset_ids.tag = "Include"
    /\ offset_ids' = SkipAndTake(materialized_log_offset_ids \cup compact_offset_ids.rbm,
                                 skip, fetch)
    /\ pc' = "done"
    /\ result' = "Ok"
    /\ UNCHANGED <<limit_inputs, materialized_log_offset_ids, scanner_locals>>
    /\ UNCHANGED <<history, caller, merge_vars>>

DispatchExcludeNoReader ==
    /\ pc = "dispatch"
    /\ compact_offset_ids.tag = "Exclude"
    /\ ~segments.some
    /\ offset_ids' = SkipAndTake(materialized_log_offset_ids, skip, fetch)
    /\ pc' = "done"
    /\ result' = "Ok"
    /\ UNCHANGED <<limit_inputs, materialized_log_offset_ids, scanner_locals>>
    /\ UNCHANGED <<history, caller, merge_vars>>

\* limit.rs 218-223
FetchOrMax(fe) == IF fe.some THEN fe.v ELSE U32Max
FilterMatchCountOverflows(log_count, rec_count, mask_len) ==
    SubOverflows(log_count + rec_count, mask_len)
FilterMatchCount(log_count, rec_count, mask_len) ==
    WrappingSub(log_count + rec_count, mask_len)
\* variant: skip taken as given
TruncatedSkipUntruncated(sk, filter_match_count) == sk
TruncatedSkip(sk, filter_match_count) == Min(sk, filter_match_count)
TruncatedFetch(fe, filter_match_count, truncated_skip) ==
    Min(FetchOrMax(fe), filter_match_count - truncated_skip)

DispatchExcludeReader ==
    /\ pc = "dispatch"
    /\ compact_offset_ids.tag = "Exclude"
    /\ segments.some
    /\ LET rc  == Count(segments.v)
           lc  == Cardinality(materialized_log_offset_ids)
           ml  == Cardinality(compact_offset_ids.rbm)
           fmc == FilterMatchCount(lc, rc, ml)
           ts  == TruncatedSkip(skip, fmc)
           tf  == TruncatedFetch(fetch, fmc, ts)
       IN  IF FilterMatchCountOverflows(lc, rc, ml) /\ overflow_checks
           THEN /\ pc' = "done"
                /\ result' = "Panic:attempt to subtract with overflow"
                /\ UNCHANGED <<scan_skip, scan_fetch>>
           ELSE /\ pc' = "seek_and_scan"
                /\ scan_skip' = ts
                /\ scan_fetch' = tf
                /\ UNCHANGED result
    /\ UNCHANGED <<limit_inputs, materialized_log_offset_ids, record_count, size, base,
                   log_index, record_index, merged_result, offset_ids>>
    /\ UNCHANGED <<history, caller, merge_vars>>

(***************************************************************************)
(* SkipScanner::joint_rank (limit.rs 74-83)                                *)
(***************************************************************************)
\* number of elements of rbm strictly less than target (limit.rs 76-77, 81, 117)
\* variant: the target itself counted
RankUpTo(rbm, target) == Rank(rbm, target)
RankBelow(rbm, target) == Rank(rbm, target) - Contains(rbm, target)

JointRankOverflows(log_ids, reader, mask, target) ==
    SubOverflows(RankBelow(log_ids, target) + GetOffsetIdRank(reader, target),
                 RankBelow(mask, target))
JointRank(log_ids, reader, mask, target) ==
    WrappingSub(RankBelow(log_ids, target) + GetOffsetIdRank(reader, target),
                RankBelow(mask, target))

(***************************************************************************)
(* SkipScanner::seek_and_scan, entry, and seek_starting_index              *)
(* (limit.rs 92-130)                                                       *)
(***************************************************************************)
\* limit.rs 97-101
SeekSize(reader, log_ids) == Max(reader.current_max_offset_id, MaxOrZero(log_ids))

\* limit.rs 116-119
StartingIndex(log_ids, reader, b) ==
    <<RankBelow(log_ids, b), GetOffsetIdRank(reader, b)>>

\* limit.rs 128-129, 93-106: count(), then the early returns of the seek
SeekStart ==
    /\ pc = "seek_and_scan"
    /\ record_count' = Count(segments.v)
    /\ merged_result' = <<>>
    /\ IF scan_skip = 0 \/ SeekSize(segments.v, materialized_log_offset_ids) = 0
       THEN /\ log_index' = 0
            /\ record_index' = 0
            /\ pc' = "scan"
            /\ UNCHANGED <<size, base>>
       ELSE /\ size' = SeekSize(segments.v, materialized_log_offset_ids)
            /\ base' = 0
            /\ pc' = "seek"
            /\ UNCHANGED <<log_index, record_index>>
    /\ UNCHANGED <<result, limit_inputs, materialized_log_offset_ids, scan_skip,
                   scan_fetch, offset_ids>>
    /\ UNCHANGED <<history, caller, merge_vars>>

\* limit.rs 112: the probe moves base unless its joint rank is Greater than skip
\* variant: base kept on Equal too
KeepBaseOnEqual(joint_rank, sk) == joint_rank >= sk
KeepBase(joint_rank, sk) == joint_rank > sk

\* limit.rs 108: size / 2 on usize
\* variant: the half of size - 1
HalfRoundedBelow(sz) == (sz - 1) \div 2
Half(sz) == sz \div 2

\* limit.rs 107-114: one iteration of the binary search
SeekStep ==
    /\ pc = "seek"
    /\ size > 1
    /\ LET half == Half(size)
           mid  == base + half
           mask == compact_offset_ids.rbm
       IN  IF JointRankOverflows(materialized_log_offset_ids, segments.v, mask, mid)
              /\ overflow_checks
           THEN /\ pc' = "done"
                /\ result' = "Panic:attempt to subtract with overflow"
                /\ UNCHANGED <<size, base>>
           ELSE /\ base' = IF KeepBase(JointRank(materialized_log_offset_ids,
                                                 segments.v, mask, mid), scan_skip)
                           THEN base ELSE mid
                /\ size' = size - half
                /\ UNCHANGED <<pc, result>>
    /\ UNCHANGED <<limit_inputs, materialized_log_offset_ids, scan_skip, scan_fetch,
                   record_count, log_index, record_index, merged_result, offset_ids>>
    /\ UNCHANGED <<history, caller, merge_vars>>

\* limit.rs 116-119, 129: the cursors the scan starts from
SeekReturn ==
    /\ pc = "seek"
    /\ size <= 1
    /\ log_index' = StartingIndex(materialized_log_offset_ids, segments.v, base)[1]
    /\ record_index' = StartingIndex(materialized_log_offset_ids, segments.v, base)[2]
    /\ pc' = "scan"
    /\ UNCHANGED <<result, limit_inputs, materialized_log_offset_ids, scan_skip,
                   scan_fetch, record_count, size, base, merged_result, offset_ids>>
    /\ UNCHANGED <<history, caller, merge_vars>>

(***************************************************************************)
(* SkipScanner::seek_and_scan, the scan loop (limit.rs 132-168)            *)
(***************************************************************************)
\* limit.rs 133
LogOffsetId == Select(materialized_log_offset_ids, log_index)
\* limit.rs 134-138.  then_some evaluates its argument before the test, so the
\* reader is asked for record_index on every iteration; the value is kept only
\* when record_index < record_count.
SelectInRange == record_index < record_count
RecordOffsetId ==
    IF SelectInRange THEN Some(GetOffsetIdAtIndex(segments.v, record_index)) ELSE None

\* limit.rs 145
\* variant: the comparison of the two cursors turned round
LogComesFirstFlipped(log_oid, record_oid) == log_oid > record_oid
LogComesFirst(log_oid, record_oid) == log_oid < record_oid

\* limit.rs 140: the guard of the first match arm
\* variant: the guard never holds
IsMaskedNever(mask, oid) == FALSE
IsMasked(mask, oid) == oid \in mask

scan_frame == <<limit_inputs, materialized_log_offset_ids, scan_skip, record_count,
                size, base, offset_ids>>

\* limit.rs 135-137: the call to the reader returns Err, which it may do at any
\* index and is free to do at an index at or beyond count(); the `?` returns
\* the error from the run
ScanSelectError ==
    /\ pc = "scan"
    /\ scan_fetch > 0
    /\ select_calls' = select_calls \cup {record_index}
    /\ Fail("get_offset_id_at_index")
    /\ UNCHANGED <<limit_inputs, limit_locals, caller, merge_vars>>

\* limit.rs 140-143
ScanMaskSkip ==
    /\ pc = "scan"
    /\ scan_fetch > 0
    /\ RecordOffsetId.some
    /\ IsMasked(compact_offset_ids.rbm, RecordOffsetId.v)
    /\ record_index' = record_index + 1
    /\ UNCHANGED <<pc, result, scan_frame, scan_fetch, log_index, merged_result>>
    /\ select_calls' = select_calls \cup {record_index}
    /\ UNCHANGED <<failed_call, caller, merge_vars>>

\* limit.rs 144-152
ScanBoth ==
    /\ pc = "scan"
    /\ scan_fetch > 0
    /\ LogOffsetId.some
    /\ RecordOffsetId.some
    /\ ~IsMasked(compact_offset_ids.rbm, RecordOffsetId.v)
    /\ IF LogComesFirst(LogOffsetId.v, RecordOffsetId.v)
       THEN /\ merged_result' = Append(merged_result, LogOffsetId.v)
            /\ log_index' = log_index + 1
            /\ UNCHANGED record_index
       ELSE /\ merged_result' = Append(merged_result, RecordOffsetId.v)
            /\ record_index' = record_index + 1
            /\ UNCHANGED log_index
    /\ scan_fetch' = scan_fetch - 1
    /\ UNCHANGED <<pc, result, scan_frame>>
    /\ select_calls' = select_calls \cup {record_index}
    /\ UNCHANGED <<failed_call, caller, merge_vars>>

\* limit.rs 153-156
ScanRecordOnly ==
    /\ pc = "scan"
    /\ scan_fetch > 0
    /\ ~LogOffsetId.some
    /\ RecordOffsetId.some
    /\ ~IsMasked(compact_offset_ids.rbm, RecordOffsetId.v)
    /\ merged_result' = Append(merged_result, RecordOffsetId.v)
    /\ record_index' = record_index + 1
    /\ scan_fetch' = scan_fetch - 1
    /\ UNCHANGED <<pc, result, scan_frame, log_index>>
    /\ select_calls' = select_calls \cup {record_index}
    /\ UNCHANGED <<failed_call, caller, merge_vars>>

\* limit.rs 157-160
ScanLogOnly ==
    /\ pc = "scan"
    /\ scan_fetch > 0
    /\ LogOffsetId.some
    /\ ~RecordOffsetId.some
    /\ merged_result' = Append(merged_result, LogOffsetId.v)
    /\ log_index' = log_index + 1
    /\ scan_fetch' = scan_fetch - 1
    /\ UNCHANGED <<pc, result, scan_frame, record_index>>
    /\ select_calls' = select_calls \cup {record_index}
    /\ UNCHANGED <<failed_call, caller, merge_vars>>

\* limit.rs 161-163: both sides exhausted
ScanNone ==
    /\ pc = "scan"
    /\ scan_fetch > 0
    /\ ~LogOffsetId.some
    /\ ~RecordOffsetId.some
    /\ scan_fetch' = scan_fetch - 1
    /\ UNCHANGED <<pc, result, scan_frame, log_index, record_index, merged_result>>
    /\ select_calls' = select_calls \cup {record_index}
    /\ UNCHANGED <<failed_call, caller, merge_vars>>

\* limit.rs 166-167, 230-232, 247-249
ScanCollect ==
    /\ pc = "scan"
    /\ scan_fetch = 0
    /\ pc' = "done"
    /\ IF IsStrictlyAscending(merged_result)
       THEN /\ offset_ids' = Elems(merged_result)
            /\ result' = "Ok"
       ELSE /\ result' = "Panic:Merged offset ids should be sorted"
            /\ UNCHANGED offset_ids
    /\ UNCHANGED <<limit_inputs, materialized_log_offset_ids, scanner_locals>>
    /\ UNCHANGED <<history, caller, merge_vars>>

(***************************************************************************)
(* MergeMetadataResultsOperator (merge_metadata_results.rs)                *)
(*                                                                         *)
(* User ids, metadata maps and documents are modelled by where they come   *)
(* from: the materialized log record of an offset id, or the segment row   *)
(* of an offset id.  A metadata map is a set of such facts.                *)
(***************************************************************************)
\* String::new()
EmptyString == [src |-> "empty", oid |-> 0]
NoneVec == [some |-> FALSE, v |-> <<>>]

\* MaterializedLogRecord::merged_user_id, merged_metadata, merged_document
MergedUserId(log) == [src |-> "log", oid |-> log.offset_id]
MergedMetadata(log) ==
    IF log.payload = "full" THEN {[src |-> "log", oid |-> log.offset_id]} ELSE {}
MergedDocument(log) ==
    IF log.payload = "full" THEN Some([src |-> "log", oid |-> log.offset_id]) ELSE None

\* RecordSegmentReader::get_user_id_for_offset_id, get_data_for_offset_id
GetUserIdForOffsetId(reader, o) == [src |-> "segment", oid |-> o]
GetDataForOffsetId(reader, o) ==
    [metadata |-> Some({[src |-> "segment", oid |-> o]}),
     document |-> Some([src |-> "segment", oid |-> o])]

\* chroma_index::utils::merge_sorted_vecs_conjunction: intersection of two ascending vectors
RECURSIVE merge_sorted_vecs_conjunction(_, _)
merge_sorted_vecs_conjunction(a, b) ==
    IF a = <<>> \/ b = <<>> THEN <<>>
    ELSE IF Head(a) < Head(b) THEN merge_sorted_vecs_conjunction(Tail(a), b)
    ELSE IF Head(a) > Head(b) THEN merge_sorted_vecs_conjunction(a, Tail(b))
    ELSE <<Head(a)>> \o merge_sorted_vecs_conjunction(Tail(a), Tail(b))

\* chroma_index::utils::merge_sorted_vecs_disjunction: union of two ascending vectors
RECURSIVE merge_sorted_vecs_disjunction(_, _)
merge_sorted_vecs_disjunction(a, b) ==
    IF a = <<>> THEN b
    ELSE IF b = <<>> THEN a
    ELSE IF Head(a) < Head(b) THEN <<Head(a)>> \o merge_sorted_vecs_disjunction(Tail(a), b)
    ELSE IF Head(a) > Head(b) THEN <<Head(b)>> \o merge_sorted_vecs_disjunction(a, Tail(b))
    ELSE <<Head(a)>> \o merge_sorted_vecs_disjunction(Tail(a), Tail(b))

\* merge_metadata_results.rs 117-131: what the run makes of the outcome of
\* RecordSegmentReader::from_segment
\* variant: a segment that is not initialized is an error like any other
FromSegmentStrict(definition) ==
    IF definition.creation = "Ok"
    THEN [err |-> FALSE,
          reader |-> Some([ids |-> definition.ids,
                           current_max_offset_id |-> MaxOrZero(definition.ids)])]
    ELSE [err |-> TRUE, reader |-> NoReader]
FromSegment(definition) ==
    IF definition.creation = "Ok"
    THEN [err |-> FALSE,
          reader |-> Some([ids |-> definition.ids,
                           current_max_offset_id |-> MaxOrZero(definition.ids)])]
    ELSE IF definition.creation = "UninitializedSegment"
    THEN [err |-> FALSE, reader |-> NoReader]
    ELSE [err |-> TRUE, reader |-> NoReader]

\* merge_metadata_results.rs 116-131
CreateReader ==
    /\ pc = "from_segment"
    /\ IF ~FromSegment(record_segment_definition).err
       THEN /\ record_segment_reader' = FromSegment(record_segment_definition).reader
            /\ pc' = "merge"
            /\ UNCHANGED result
       ELSE /\ pc' = "done"
            /\ result' = "Err:RecordSegmentCreationError"
            /\ UNCHANGED record_segment_reader
    /\ UNCHANGED <<merge_inputs, merge_window, merge_output, logged_offset_ids, visited,
                   segment_reads>>
    /\ UNCHANGED limit_vars

\* merge_metadata_results.rs 158-166
LiveLogOffsetIds(records) ==
    SortedVec({log.offset_id : log \in {l \in records :
                                            l.final_operation # "DeleteExisting"}})

\* merge_metadata_results.rs 150-180
\* variant: the two lists united instead of intersected, the segment left out
MergedOffsetIdsUnion(fids, uids, records, reader) ==
    IF fids.some /\ uids.some THEN merge_sorted_vecs_disjunction(fids.v, uids.v)
    ELSE IF fids.some THEN fids.v
    ELSE IF uids.some THEN uids.v
    ELSE LiveLogOffsetIds(records)
MergedOffsetIds(fids, uids, records, reader) ==
    IF fids.some /\ uids.some THEN merge_sorted_vecs_conjunction(fids.v, uids.v)
    ELSE IF fids.some THEN fids.v
    ELSE IF uids.some THEN uids.v
    ELSE IF reader.some
         THEN merge_sorted_vecs_disjunction(LiveLogOffsetIds(records),
                                            SortedVec(reader.v.ids))
         ELSE LiveLogOffsetIds(records)

MergeOffsetIds ==
    /\ pc = "merge"
    /\ merged_offset_ids' = MergedOffsetIds(filtered_offset_ids, user_offset_ids,
                                            mat_records, record_segment_reader)
    /\ segment_reads' =
          IF ~filtered_offset_ids.some /\ ~user_offset_ids.some /\ record_segment_reader.some
          THEN segment_reads \cup {"get_all_offset_ids"}
          ELSE segment_reads
    /\ pc' = "truncate"
    /\ UNCHANGED <<result, merge_inputs, record_segment_reader, skip_count, take_count,
                   truncated_offset_id_order, merge_output, logged_offset_ids, visited>>
    /\ UNCHANGED limit_vars

\* merge_metadata_results.rs 183-187
SkipCount(off) == IF off.some THEN off.v ELSE 0
TakeCount(lim, merged) == IF lim.some THEN lim.v ELSE Len(merged)

\* merge_metadata_results.rs 191-195: a later position replaces an earlier one
\* variant: positions counted from the end of the window
TruncatedOffsetIdOrderReversed(window) ==
    [o \in Elems(window) |->
        Len(window) + 1 - (CHOOSE i \in 1..Len(window) : window[i] = o)]
TruncatedOffsetIdOrder(window) ==
    [o \in Elems(window) |->
        CHOOSE i \in 1..Len(window) :
            /\ window[i] = o
            /\ \A j \in (i + 1)..Len(window) : window[j] # o]

\* merge_metadata_results.rs 182-203
Truncate ==
    /\ pc = "truncate"
    /\ LET sc == SkipCount(offset)
           tc == TakeCount(limit, merged_offset_ids)
       IN  /\ skip_count' = sc
           /\ take_count' = tc
           /\ IF sc + tc > Len(merged_offset_ids)
              THEN \* the slice merged_offset_ids[sc..sc + tc] is out of range
                   /\ pc' = "done"
                   /\ result' = "Panic:range end index out of range"
                   /\ UNCHANGED <<truncated_offset_id_order, merge_output>>
              ELSE /\ truncated_offset_id_order' =
                          TruncatedOffsetIdOrder(SubSeq(merged_offset_ids, sc + 1, sc + tc))
                   /\ ids' = [i \in 1..tc |-> EmptyString]
                   /\ metadata' = IF include_metadata THEN [i \in 1..tc |-> None] ELSE <<>>
                   /\ documents' = IF include_metadata THEN [i \in 1..tc |-> None] ELSE <<>>
                   /\ pc' = "hydrate_log"
                   /\ UNCHANGED result
    /\ UNCHANGED <<merge_inputs, record_segment_reader, merged_offset_ids,
                   logged_offset_ids, visited, segment_reads>>
    /\ UNCHANGED limit_vars

\* merge_metadata_results.rs 216
NonEmptyThenSome(final_metadata) ==
    IF final_metadata # {} THEN Some(final_metadata) ELSE None

\* merge_metadata_results.rs 206-220: one iteration of the log pass;
\* the records are met in any order
HydrateLog ==
    /\ pc = "hydrate_log"
    /\ \E log \in mat_records :
          /\ log.offset_id \notin logged_offset_ids
          /\ logged_offset_ids' = logged_offset_ids \cup {log.offset_id}
          /\ IF log.offset_id \in DOMAIN truncated_offset_id_order
             THEN LET index == truncated_offset_id_order[log.offset_id]
                  IN  /\ ids' = [ids EXCEPT ![index] = MergedUserId(log)]
                      /\ IF include_metadata
                         THEN /\ metadata' = [metadata EXCEPT ![index] =
                                                 NonEmptyThenSome(MergedMetadata(log))]
                              /\ documents' = [documents EXCEPT ![index] =
                                                 MergedDocument(log)]
                         ELSE UNCHANGED <<metadata, documents>>
             ELSE UNCHANGED merge_output
    /\ UNCHANGED <<pc, result, merge_inputs, record_segment_reader, merge_window, visited,
                   segment_reads>>
    /\ UNCHANGED limit_vars

\* the log pass has met every record
EndLogPass ==
    /\ pc = "hydrate_log"
    /\ \A log \in mat_records : log.offset_id \in logged_offset_ids
    /\ pc' = "hydrate_segment"
    /\ UNCHANGED <<result, merge_inputs, merge_locals>>
    /\ UNCHANGED limit_vars

\* merge_metadata_results.rs 226: the segment pass leaves out the logged offset ids
\* variant: the segment pass goes through the logged offset ids too
SegmentPassVisitsAll(o, logged) == TRUE
SegmentPassVisits(o, logged) == o \notin logged

\* merge_metadata_results.rs 223-248: one iteration of the segment pass;
\* the index map is iterated in any order
HydrateSegment ==
    /\ pc = "hydrate_segment"
    /\ record_segment_reader.some
    /\ \E o \in DOMAIN truncated_offset_id_order :
          /\ SegmentPassVisits(o, logged_offset_ids)
          /\ o \notin visited
          /\ visited' = visited \cup {o}
          /\ segment_reads' = segment_reads \cup {"get_user_id_for_offset_id"}
                                  \cup (IF include_metadata /\ o \in record_segment_reader.v.ids
                                        THEN {"get_data_for_offset_id"} ELSE {})
          /\ IF o \notin record_segment_reader.v.ids
             THEN \* the reader has no row for o
                  /\ pc' = "done"
                  /\ result' = "Err:RecordSegmentReadError"
                  /\ UNCHANGED merge_output
             ELSE LET index  == truncated_offset_id_order[o]
                      record == GetDataForOffsetId(record_segment_reader.v, o)
                  IN  /\ ids' = [ids EXCEPT ![index] =
                                    GetUserIdForOffsetId(record_segment_reader.v, o)]
                      /\ IF include_metadata
                         THEN /\ metadata' = [metadata EXCEPT ![index] = record.metadata]
                              /\ documents' = [documents EXCEPT ![index] = record.document]
                         ELSE UNCHANGED <<metadata, documents>>
                      /\ UNCHANGED <<pc, result>>
    /\ UNCHANGED <<merge_inputs, record_segment_reader, merge_window, logged_offset_ids>>
    /\ UNCHANGED limit_vars

\* merge_metadata_results.rs 250-254
ReturnOutput ==
    /\ pc = "hydrate_segment"
    /\ record_segment_reader.some =>
          \A o \in DOMAIN truncated_offset_id_order :
             SegmentPassVisits(o, logged_offset_ids) => o \in visited
    /\ pc' = "done"
    /\ result' = "Ok"
    /\ UNCHANGED <<merge_inputs, merge_locals>>
    /\ UNCHANGED limit_vars

(***************************************************************************)
(* Inputs of a Limit run.                                                  *)
(***************************************************************************)
\* the readers of a segment: current_max_offset_id is at least the largest id
Readers ==
    {[some |-> TRUE, v |-> [ids |-> S, current_max_offset_id |-> c]] :
        <<S, c>> \in {sc \in (SUBSET Ids) \X (0..(MaxId + MaxSlack)) :
                         /\ sc[2] >= MaxOrZero(sc[1])
                         /\ sc[2] <= MaxOrZero(sc[1]) + MaxSlack}}

\* the materialized log whose live offset ids are A: a log record of an id of
\* the segment is an update of it, any other an addition
LiveLog(A, reader) ==
    {MatRecord(o, IF o \in reader.v.ids THEN "UpdateExisting" ELSE "AddNew", "full") :
        o \in A}

Fetches == {None} \cup {Some(f) : f \in 0..MaxFetch}

\* the run subtracts with overflow only on the scanner path with a mask that is
\* not within L \cup S; the build is left open there.  A wrapping build with
\* fetch absent scans u32::MAX times, which is beyond the bounds.
BuildMatters(A, reader, compact, fe) ==
    /\ reader.some
    /\ compact.tag = "Exclude"
    /\ ~(compact.rbm \subseteq (A \cup reader.v.ids))
    /\ fe.some

\* no Limit run
LimitIdle ==
    /\ logs = {}
    /\ segments = NoReader
    /\ log_offset_ids = Include({})
    /\ compact_offset_ids = Include({})
    /\ skip = 0
    /\ fetch = None
    /\ overflow_checks = TRUE

\* nothing called yet, first run
HistoryInit ==
    /\ failed_call = ""
    /\ select_calls = {}
    /\ run_no = 1
    /\ first_run = [offset_ids |-> {}, current_max_offset_id |-> 0,
                    log_offset_ids |-> Include({})]

LimitLocalsInit ==
    /\ HistoryInit
    /\ materialized_log_offset_ids = {}
    /\ scan_skip = 0
    /\ scan_fetch = 0
    /\ record_count = 0
    /\ size = 0
    /\ base = 0
    /\ log_index = 0
    /\ record_index = 0
    /\ merged_result = <<>>
    /\ offset_ids = {}

\* no MergeAndHydrate run
MergeIdle ==
    /\ record_segment_definition = [creation |-> "UninitializedSegment", ids |-> {}]
    /\ mat_records = {}
    /\ user_offset_ids = NoneVec
    /\ filtered_offset_ids = NoneVec
    /\ offset = None
    /\ limit = None
    /\ include_metadata = FALSE

MergeLocalsInit ==
    /\ record_segment_reader = NoReader
    /\ merged_offset_ids = <<>>
    /\ skip_count = 0
    /\ take_count = 0
    /\ truncated_offset_id_order = <<>>
    /\ ids = <<>>
    /\ metadata = <<>>
    /\ documents = <<>>
    /\ logged_offset_ids = {}
    /\ visited = {}
    /\ segment_reads = {}

LimitInit ==
    /\ pc = "run"
    /\ result = ""
    /\ segments \in {NoReader} \cup Readers
    /\ \E A \in SUBSET Ids :
          /\ logs = LiveLog(A, segments)
          /\ log_offset_ids \in {Include(A), Include({}), Exclude({})}
          /\ compact_offset_ids \in {Include(R) : R \in SUBSET Ids}
                                      \cup {Exclude(R) : R \in SUBSET Ids}
          /\ skip \in 0..MaxSkip
          /\ fetch \in Fetches
          /\ overflow_checks \in
                IF BuildMatters(A, segments, compact_offset_ids, fetch)
                THEN BOOLEAN ELSE {TRUE}
    /\ LimitLocalsInit
    /\ MergeIdle
    /\ MergeLocalsInit

\* a call returns Err
LimitFailures ==
    \/ ReaderFails
    \/ MaterializeFails
    \/ CountFails
    \/ RankFails
    \/ ScanSelectError

\* the steps of the run itself
LimitSteps ==
    \/ ResolveLog
    \/ DispatchInclude
    \/ DispatchExcludeNoReader
    \/ DispatchExcludeReader
    \/ SeekStart
    \/ SeekStep
    \/ SeekReturn
    \/ ScanMaskSkip
    \/ ScanBoth
    \/ ScanRecordOnly
    \/ ScanLogOnly
    \/ ScanNone
    \/ ScanCollect

LimitNext ==
    \/ LimitFailures
    \/ LimitSteps

(***************************************************************************)
(* A caller that runs the operator a second time.  run takes &self and     *)
(* &LimitInput (limit.rs 175): the operator and the input of the second    *)
(* run are those of the first, and every local is created anew.            *)
(***************************************************************************)
\* limit.rs 182: the run works on a clone of the bitmap of input.log_offset_ids,
\* so remove_smallest (209, 234) leaves the input as it was
\* variant: the run removes the skipped ids from the bitmap of the input
LogOffsetIdsAfterRunInPlace(signed, sk) ==
    IF signed.tag = "Include" THEN Include(RemoveSmallest(signed.rbm, sk)) ELSE signed
LogOffsetIdsAfterRun(signed, sk) == signed

\* a new call of run: position and locals of the first run are gone
NewRun ==
    /\ pc = "done"
    /\ result = "Ok"
    /\ run_no = 1
    /\ run_no' = 2
    /\ first_run' = [offset_ids |-> offset_ids,
                     current_max_offset_id |-> segments.v.current_max_offset_id,
                     log_offset_ids |-> log_offset_ids]
    /\ pc' = "run"
    /\ result' = ""
    /\ log_offset_ids' = LogOffsetIdsAfterRun(log_offset_ids, skip)
    /\ materialized_log_offset_ids' = {}
    /\ scan_skip' = 0
    /\ scan_fetch' = 0
    /\ record_count' = 0
    /\ size' = 0
    /\ base' = 0
    /\ log_index' = 0
    /\ record_index' = 0
    /\ merged_result' = <<>>
    /\ offset_ids' = {}
    /\ select_calls' = {}
    /\ UNCHANGED <<failed_call, logs, compact_offset_ids, skip, fetch, overflow_checks,
                   merge_vars>>

\* the same operator on the same input
RunAgain ==
    /\ NewRun
    /\ UNCHANGED segments

\* the same operator on the same input, the segment reporting another
\* current_max_offset_id that is no less than its largest offset id
RunAgainWithBound ==
    /\ NewRun
    /\ segments.some
    /\ compact_offset_ids.tag = "Exclude"
    /\ \E c \in MaxOrZero(segments.v.ids)..(MaxOrZero(segments.v.ids) + MaxSlack) :
          /\ c # segments.v.current_max_offset_id
          /\ segments' = [segments EXCEPT !.v.current_max_offset_id = c]

NextAgain ==
    \/ LimitNext
    \/ RunAgain
    \/ RunAgainWithBound

(***************************************************************************)
(* Inputs of a MergeAndHydrate run.                                        *)
(***************************************************************************)
Oids == 1..MaxOid

\* the segment in storage: initialized with some rows, not initialized, or unreadable
SegmentDefinitions ==
    {[creation |-> "Ok", ids |-> ss] : ss \in SUBSET Oids}
        \cup {[creation |-> "UninitializedSegment", ids |-> {}],
              [creation |-> "InvalidNumberOfFiles", ids |-> {}]}

\* the records the materializer can give for one offset id: a log record of a
\* segment row updates or deletes it, any other log record adds a row
RecordsOf(o, segment_ids) ==
    {MatRecord(o, op, p) :
        op \in (IF o \in segment_ids THEN {"UpdateExisting", "DeleteExisting"}
                                      ELSE {"AddNew"}),
        p \in {"full", "bare"}}

\* the materialized logs: at most one record for an offset id
MaterializedLogs(segment_ids) ==
    {recs \in SUBSET (UNION {RecordsOf(o, segment_ids) : o \in Oids}) :
        \A r1, r2 \in recs : r1.offset_id = r2.offset_id => r1 = r2}

\* Option of an ascending, duplicate-free vector of offset ids
OffsetIdLists == {NoneVec} \cup {Some(SortedVec(ss)) : ss \in SUBSET Oids}

MergeInit ==
    /\ pc = "from_segment"
    /\ result = ""
    /\ record_segment_definition \in SegmentDefinitions
    /\ mat_records \in MaterializedLogs(record_segment_definition.ids)
    /\ user_offset_ids \in OffsetIdLists
    /\ filtered_offset_ids \in OffsetIdLists
    /\ offset \in {None} \cup {Some(n) : n \in 0..MaxOffset}
    /\ limit \in {None} \cup {Some(n) : n \in 0..MaxLimit}
    /\ include_metadata \in BOOLEAN
    /\ MergeLocalsInit
    /\ LimitIdle
    /\ LimitLocalsInit

MergeNext ==
    \/ CreateReader
    \/ MergeOffsetIds
    \/ Truncate
    \/ HydrateLog
    \/ EndLogPass
    \/ HydrateSegment
    \/ ReturnOutput

(***************************************************************************)
(* Inputs of a Limit run for its log side: materialized logs with deleted  *)
(* records, and a log_offset_ids of either sign over any ids.              *)
(***************************************************************************)
\* the materialized logs over a segment: at most one record for an offset id
LogsOver(segment_ids) ==
    {recs \in SUBSET (UNION {{r \in RecordsOf(o, segment_ids) : r.payload = "full"} :
                                o \in Ids}) :
        \A r1, r2 \in recs : r1.offset_id = r2.offset_id => r1 = r2}

LogInit ==
    /\ pc = "run"
    /\ result = ""
    /\ segments \in {NoReader} \cup {r \in Readers :
                           r.v.current_max_offset_id = MaxOrZero(r.v.ids)}
    /\ logs \in LogsOver(segments.v.ids)
    /\ log_offset_ids \in {Include(B) : B \in SUBSET Ids} \cup {Exclude(B) : B \in SUBSET Ids}
    /\ compact_offset_ids \in
          {Include(R) : R \in SUBSET Ids}
              \cup (IF segments.some THEN {} ELSE {Exclude(R) : R \in SUBSET Ids})
    /\ skip \in {0, MaxSkip}
    /\ fetch \in {None, Some(MaxFetch)}
    /\ overflow_checks = TRUE
    /\ LimitLocalsInit
    /\ MergeIdle
    /\ MergeLocalsInit

LogNext ==
    \/ ReaderFails
    \/ MaterializeFails
    \/ ResolveLog
    \/ DispatchInclude
    \/ DispatchExcludeNoReader

vars == <<pc, result, limit_vars, merge_vars>>

\* a run of LimitOperator
Init == LimitInit
Next == LimitNext
Spec == Init /\ [][Next]_vars

\* the log side of a run of LimitOperator, over logs that delete and signed
\* bitmaps of any content, followed by the dispatches that do not scan
SpecLog == LogInit /\ [][LogNext]_vars

\* a run of LimitOperator that is polled until it returns: a step of the run
\* that can be taken is taken; whether a call fails is up to the segment
SpecFair == Init /\ [][Next]_vars /\ WF_vars(LimitSteps)

\* two runs of LimitOperator, one after the other
SpecAgain == Init /\ [][NextAgain]_vars

\* a run of MergeMetadataResultsOperator
SpecMerge == MergeInit /\ [][MergeNext]_vars

(***************************************************************************)
(* Vocabulary of the properties of Limit.                                  *)
(***************************************************************************)
L == materialized_log_offset_ids
S == segments.v.ids
M == compact_offset_ids.rbm

\* the run went through the SkipScanner
ScannerPath == compact_offset_ids.tag = "Exclude" /\ segments.some
Resolved == pc # "run"
Returned == pc = "done" /\ result = "Ok"

\* the imaginary merged segment, ascending
Conceptual == SortedVec((L \cup S) \ M)

\* positions [sk, sk + fe) of an ascending vector (all from sk on when fe is absent)
WindowOf(vec, sk, fe) ==
    LET last == IF fe.some THEN Min(Len(vec), sk + fe.v) ELSE Len(vec)
    IN  {vec[i] : i \in (sk + 1)..last}

ScannerPrecondition ==
    /\ ScannerPath
    /\ L \cap S = {}
    /\ M \subseteq (L \cup S)
    /\ segments.v.current_max_offset_id >= MaxOrZero(S)

\* C1 (as claimed): on the scanner path, with L and S disjoint, M within L \cup S
\* and current_max_offset_id >= max(S), the i-th smallest element of the returned
\* bitmap is the (skip+i)-th smallest element of (L \cup S) - M.
C1_SkipCorrectness ==
    (Returned /\ ScannerPrecondition) =>
        LET out == SortedVec(offset_ids)
        IN  \A i \in 1..Len(out) :
               /\ skip + i <= Len(Conceptual)
               /\ out[i] = Conceptual[skip + i]

\* C2 (as claimed): with compact_offset_ids = Exclude(M) and a reader present, the
\* returned bitmap contains no element of M, also when the element is in L.
C2_MaskExclusion ==
    (Returned /\ ScannerPath) => offset_ids \cap M = {}

\* C3: with L and S disjoint, the ids the scan appends to merged_result are
\* strictly ascending at every step, the run never panics with "Merged offset
\* ids should be sorted", and the returned bitmap, ascending, is merged_result.
C3_Sortedness ==
    (Resolved /\ ScannerPath /\ L \cap S = {}) =>
        /\ IsStrictlyAscending(merged_result)
        /\ result # "Panic:Merged offset ids should be sorted"
        /\ Returned => SortedVec(offset_ids) = merged_result

\* a returned scan that took ids from the log and from the segment
C3_Witness ==
    /\ Returned /\ ScannerPath /\ L \cap S = {}
    /\ Len(merged_result) >= 2
    /\ Elems(merged_result) \cap L # {}
    /\ Elems(merged_result) \cap S # {}

\* C4: on every dispatch path, when fetch = Some(f) the returned bitmap has at
\* most f elements.
C4_Cardinality ==
    (Returned /\ fetch.some) => Cardinality(offset_ids) <= fetch.v

\* fetch cut the output of a scan: more ids were there to return
C4_Witness ==
    /\ Returned /\ ScannerPath /\ fetch.some /\ fetch.v >= 1
    /\ Cardinality(offset_ids) = fetch.v
    /\ Len(Conceptual) > skip + fetch.v

\* C5: with compact_offset_ids = Include(R) the output is the set of elements of
\* L \cup R at the sorted positions [skip, skip+fetch) (all from skip on when
\* fetch is absent), whatever the segment holds and whether or not a reader
\* exists; L = {}, R = {1..5}, skip 2, fetch 2 gives {3,4}.
C5_IncludePath ==
    /\ (Returned /\ compact_offset_ids.tag = "Include") =>
           offset_ids = WindowOf(SortedVec(L \cup compact_offset_ids.rbm), skip, fetch)
    /\ SkipAndTake({} \cup (1..5), 2, Some(2)) = {3, 4}

\* an Include run over a non-empty segment that skipped and cut
C5_Witness ==
    /\ Returned /\ compact_offset_ids.tag = "Include"
    /\ segments.some /\ S # {}
    /\ L # {} /\ ~(compact_offset_ids.rbm \subseteq L)
    /\ skip >= 1 /\ fetch.some
    /\ offset_ids # {}
    /\ Cardinality(L \cup compact_offset_ids.rbm) > skip + fetch.v

\* C11: with log_offset_ids = Include(empty) and compact_offset_ids = Include(R)
\* the output is the [skip, skip+fetch) window of R, whatever the log holds; with
\* compact_offset_ids = Include(empty) and log_offset_ids = Include(B) it is the
\* same window of B.
C11_UnionizeIdentity ==
    (Returned /\ log_offset_ids.tag = "Include" /\ compact_offset_ids.tag = "Include") =>
        /\ log_offset_ids.rbm = {} =>
              offset_ids = WindowOf(SortedVec(compact_offset_ids.rbm), skip, fetch)
        /\ compact_offset_ids.rbm = {} =>
              offset_ids = WindowOf(SortedVec(log_offset_ids.rbm), skip, fetch)

\* Include(empty) on the log side of a log that has records, and a window cut
\* out of the middle of R
C11_Witness ==
    /\ Returned
    /\ log_offset_ids = Include({}) /\ logs # {}
    /\ compact_offset_ids.tag = "Include"
    /\ skip >= 1 /\ fetch.some /\ fetch.v >= 1
    /\ Cardinality(compact_offset_ids.rbm) > skip + fetch.v
    /\ offset_ids # {}

\* the reader is over a segment that holds nothing
EmptySegmentReader ==
    segments.some /\ S = {} /\ segments.v.current_max_offset_id = 0

\* C12 (as claimed): with compact_offset_ids = Exclude(empty), a run without a
\* segment reader and a run with a reader over an empty segment (count 0,
\* current_max_offset_id 0) return the same bitmap, the [skip, skip+fetch)
\* window of L.
C12_AbsentReaderIsEmptySegment ==
    (Returned /\ compact_offset_ids = Exclude({})
              /\ (~segments.some \/ EmptySegmentReader)) =>
        offset_ids = WindowOf(SortedVec(L), skip, fetch)

\* the LimitError of a failure of the call that failed
ErrorOfFailedCall ==
    CASE failed_call = "record_segment_reader" -> "Err:FetchSegment"
      [] failed_call = "materialize" -> "Err:LogMaterializer"
      [] failed_call \in {"count", "get_offset_id_rank", "get_offset_id_at_index"} ->
             "Err:RecordSegment"
      [] OTHER -> "none"

\* C14: when a call to the segment (count, rank, select by index, the reader
\* itself) or the materialization of the log fails, the run is over at once with
\* the error of that call and without an offset-id bitmap; an error is returned
\* only for a call that failed; and nothing is called after a failure.
C14_ErrorPropagation ==
    /\ [](failed_call # "" =>
             /\ pc = "done"
             /\ result = ErrorOfFailedCall
             /\ offset_ids = {})
    /\ [](result \in {"Err:FetchSegment", "Err:LogMaterializer", "Err:RecordSegment"} =>
             failed_call # "")
    /\ [][failed_call = "" /\ (failed_call' # "" => select_calls' \ select_calls
                                                       \subseteq {record_index})]_vars

\* a select by index failed in the middle of a scan that had merged ids already
C14_Witness ==
    /\ pc = "done"
    /\ failed_call = "get_offset_id_at_index"
    /\ result = "Err:RecordSegment"
    /\ merged_result # <<>>
    /\ record_index < record_count

C16_BoundIndependence ==
    (run_no = 2 /\ Returned /\ ScannerPrecondition
     /\ first_run.current_max_offset_id >= MaxOrZero(S)) =>
        offset_ids = first_run.offset_ids

\* C17 (as claimed): an offset id that the log cursor and the segment cursor
\* offer together (and that is not in M) is emitted once: no offset id is twice
\* in the merged result, and the run does not end in the panic of an unsorted
\* merged result.
C17_SameIdBothSides ==
    (Resolved /\ ScannerPath) =>
        /\ \A i, j \in 1..Len(merged_result) :
              i # j => merged_result[i] # merged_result[j]
        /\ result # "Panic:Merged offset ids should be sorted"

\* the targets joint_rank can be asked about
Targets == 0..(MaxId + MaxSlack + 1)

\* number of elements of the imaginary merged segment strictly less than t
ConceptualRank(t) == Cardinality({x \in (L \cup S) \ M : x < t})

\* C18: with L and S disjoint and M within L \cup S, for every target t
\* joint_rank(t) is the number of elements of (L \cup S) - M strictly less than
\* t, it is non-decreasing in t, and its subtraction of the mask rank does not go
\* below zero.
C18_JointRank ==
    (Resolved /\ ScannerPrecondition) =>
        /\ \A t \in Targets :
              /\ ~JointRankOverflows(L, segments.v, M, t)
              /\ JointRank(L, segments.v, M, t) = ConceptualRank(t)
        /\ \A t, u \in Targets :
              t <= u => JointRank(L, segments.v, M, t) <= JointRank(L, segments.v, M, u)

\* the binary search has moved to a target that has log ids, segment ids and
\* masked ids below it
C18_Witness ==
    /\ pc = "seek" /\ base > 0
    /\ ScannerPrecondition
    /\ RankBelow(L, base) > 0
    /\ GetOffsetIdRank(segments.v, base) > 0
    /\ RankBelow(M, base) > 0
    /\ JointRank(L, segments.v, M, base) > 0

\* the bound of the binary search: max(current_max_offset_id, max(L))
SeekBound == Max(segments.v.current_max_offset_id, MaxOrZero(L))

\* the binary search is over
SeekOver == pc = "seek" /\ size <= 1

\* C19: with skip > 0 and L and S disjoint, M within L \cup S, at every iteration
\* of the binary search joint_rank(base) <= skip and base + size does not exceed
\* max(current_max_offset_id, max(L)); on exit base is the largest value of
\* [0, max(current_max_offset_id, max(L)) - 1] whose joint rank is <= skip, and
\* the cursors returned are (rank_L(base), rank_S(base)).
C19_SeekInvariant ==
    /\ []((pc = "seek" /\ ScannerPrecondition) =>
             /\ scan_skip > 0
             /\ JointRank(L, segments.v, M, base) <= scan_skip
             /\ base + size <= SeekBound
             /\ SeekOver =>
                   /\ base \in 0..(SeekBound - 1)
                   /\ \A b \in 0..(SeekBound - 1) :
                         JointRank(L, segments.v, M, b) <= scan_skip => b <= base)
    /\ [][(SeekOver /\ ScannerPrecondition /\ pc' = "scan") =>
             /\ log_index' = Cardinality({x \in L : x < base})
             /\ record_index' = Cardinality({x \in S : x < base})]_vars

\* the search is over after it moved base and after it kept it, below the
\* largest offset id
C19_Witness ==
    /\ SeekOver /\ ScannerPrecondition
    /\ L # {} /\ S # {} /\ M # {}
    /\ base >= 2
    /\ base < SeekBound - 1
    /\ JointRank(L, segments.v, M, base + 1) > scan_skip

\* C20 (as claimed): during the scan get_offset_id_at_index is called only with
\* an index strictly less than count(); with the segment cursor at count() the
\* segment is not read.
C20_SelectStaysInRange ==
    (Resolved /\ ScannerPath) =>
        \A index \in select_calls : index < Count(segments.v)

\* the number of offset ids a window of skip and fetch holds
WindowSize ==
    LET n    == Cardinality((L \cup S) \ M)
        rest == n - Min(skip, n)
    IN  IF fetch.some THEN Min(fetch.v, rest) ELSE rest

\* the run is in SkipScanner, before its scan loop
BeforeScan == pc \in {"seek_and_scan", "seek"}

\* C21: on the scanner path with L and S disjoint and M within S, the size
\* computation does not underflow, the scanner is given min(skip, |(L \cup S) - M|)
\* to skip and min(fetch, |(L \cup S) - M| - min(skip, |(L \cup S) - M|)) to
\* fetch (fetch absent: unlimited), and the run emits exactly that many offset
\* ids; with skip >= |(L \cup S) - M| the bitmap is empty.
C21_WindowSize ==
    (Resolved /\ ScannerPath /\ L \cap S = {} /\ M \subseteq S) =>
        /\ ~FilterMatchCountOverflows(Cardinality(L), Count(segments.v), Cardinality(M))
        /\ result # "Panic:attempt to subtract with overflow"
        /\ BeforeScan =>
              /\ scan_skip = Min(skip, Cardinality((L \cup S) \ M))
              /\ scan_fetch = WindowSize
        /\ Returned =>
              /\ Cardinality(offset_ids) = WindowSize
              /\ skip >= Cardinality((L \cup S) \ M) => offset_ids = {}

\* a scan returned the rest of a conceptual set that fetch would not have cut,
\* and masked ids were in the segment
C21_Witness ==
    /\ Returned /\ ScannerPath /\ L \cap S = {} /\ M \subseteq S
    /\ M # {} /\ L # {}
    /\ skip >= 1
    /\ fetch.some /\ fetch.v > WindowSize
    /\ WindowSize >= 1
    /\ Cardinality(offset_ids) = WindowSize

\* C22: every run ends.  While the binary search goes on, size > 1 and every
\* iteration makes size strictly smaller; every iteration of the scan either
\* moves the segment cursor past a masked id, with the cursor below count(), or
\* takes one from fetch; and the scan is left with a result only at fetch = 0,
\* both sides exhausted or not.
C22_Termination ==
    /\ <>(pc = "done")
    /\ [][(pc = "seek" /\ pc' = "seek") => (size > 1 /\ size' < size /\ size' >= 1)]_vars
    /\ [][(pc = "scan" /\ pc' = "scan") =>
             \/ /\ scan_fetch' = scan_fetch - 1
                /\ scan_fetch' >= 0
             \/ /\ scan_fetch' = scan_fetch
                /\ record_index < record_count
                /\ GetOffsetIdAtIndex(segments.v, record_index) \in M
                /\ record_index' = record_index + 1]_vars
    /\ [][(pc = "scan" /\ pc' = "done" /\ failed_call' = "") => scan_fetch = 0]_vars

\* a scan went on to fetch = 0 after both sides were exhausted
C22_Witness ==
    /\ Returned /\ ScannerPath
    /\ scan_fetch = 0
    /\ log_index = Cardinality(L)
    /\ record_index = record_count
    /\ Len(merged_result) >= 1
    /\ Len(merged_result) < fetch.v
    /\ size = 1 /\ base >= 1
    /\ Cardinality(select_calls) > Len(merged_result)

\* the segment cursor points at an id of the mask
AtMaskedId ==
    /\ pc = "scan" /\ scan_fetch > 0
    /\ record_index < record_count
    /\ GetOffsetIdAtIndex(segments.v, record_index) \in M

\* C23: a scan step taken with the segment cursor at an id of M moves the
\* segment cursor by one and leaves the log cursor, the remaining fetch and the
\* ids emitted so far as they are.
C23_MaskSkipFrame ==
    [][(AtMaskedId /\ failed_call' = "") =>
          /\ pc' = "scan"
          /\ record_index' = record_index + 1
          /\ log_index' = log_index
          /\ scan_fetch' = scan_fetch
          /\ merged_result' = merged_result]_vars

\* the scan has emitted a segment id and then gone past the masked id after it,
\* with log ids and fetch left
C23_Witness ==
    /\ pc = "scan" /\ scan_fetch > 0
    /\ record_index >= 2
    /\ (record_index - 1) \in select_calls
    /\ GetOffsetIdAtIndex(segments.v, record_index - 1) \in M
    /\ merged_result # <<>>
    /\ merged_result[Len(merged_result)] = GetOffsetIdAtIndex(segments.v, record_index - 2)
    /\ log_index < Cardinality(L)

\* the offset ids that have a materialized log record
LoggedIds == {log.offset_id : log \in logs}

\* C24: with log_offset_ids = Include(B) the log bitmap L is B, and the log is
\* not materialized; with Exclude(B), L is the set of offset ids of the
\* materialized records whose final_operation is not DeleteExisting, minus B, and
\* it is what it would be with the ids of B that the log does not have left out
\* of B.
C24_LogSideResolution ==
    /\ log_offset_ids.tag = "Include" => failed_call # "materialize"
    /\ (pc # "run" /\ failed_call = "") =>
          /\ log_offset_ids.tag = "Include" => L = log_offset_ids.rbm
          /\ log_offset_ids.tag = "Exclude" =>
                /\ L = {o \in LoggedIds :
                           \E log \in logs : /\ log.offset_id = o
                                             /\ log.final_operation # "DeleteExisting"}
                          \ log_offset_ids.rbm
                /\ L = MaterializedLogOffsetIds(
                           Exclude(log_offset_ids.rbm \cap LoggedIds), logs)

\* an Exclude(B) resolved over a log with a deleted record and a live record
\* outside B, B holding an id the log does not have
C24_Witness ==
    /\ pc = "done" /\ result = "Ok"
    /\ log_offset_ids.tag = "Exclude"
    /\ \E log \in logs : log.final_operation = "DeleteExisting"
    /\ log_offset_ids.rbm \ LoggedIds # {}
    /\ L # {}
    /\ L # LoggedIds

(***************************************************************************)
(* Vocabulary of the properties of MergeAndHydrate.                        *)
(***************************************************************************)
\* the merged candidate list has been computed
MergedComputed ==
    \/ pc \in {"truncate", "hydrate_log", "hydrate_segment"}
    \/ pc = "done" /\ result # "Err:RecordSegmentCreationError"

\* the window and the output vectors have been set up
Windowed ==
    \/ pc \in {"hydrate_log", "hydrate_segment"}
    \/ pc = "done" /\ result \in {"Ok", "Err:RecordSegmentReadError"}

NeitherList == ~user_offset_ids.some /\ ~filtered_offset_ids.some

\* the offset ids of the rows the reader has
SegmentIds == IF record_segment_reader.some THEN record_segment_reader.v.ids ELSE {}

\* the 1-based positions of offset id o in the window
PositionsOf(o) ==
    {i \in 1..take_count : merged_offset_ids[skip_count + i] = o}

\* C6 (as claimed): for every merged list, every offset <= |merged|, every limit
\* and both values of include_metadata, the run returns normally and ids,
\* metadata and documents all have the length min(limit, |merged| - offset).
C6_Alignment ==
    (/\ pc = "done"
     /\ result # "Err:RecordSegmentCreationError"
     /\ result # "Err:RecordSegmentReadError"
     /\ SkipCount(offset) <= Len(merged_offset_ids)) =>
        LET rest == Len(merged_offset_ids) - SkipCount(offset)
            n    == IF limit.some THEN Min(limit.v, rest) ELSE rest
        IN  /\ result = "Ok"
            /\ Len(ids) = n
            /\ Len(metadata) = n
            /\ Len(documents) = n

\* C7 (as claimed): with neither list present, no offset id whose final_operation
\* is DeleteExisting is in the merged list or in a row of the output, also when
\* the segment still holds it.
C7_DeletionInvisibility ==
    (MergedComputed /\ NeitherList) =>
        \A log \in mat_records :
            log.final_operation = "DeleteExisting" =>
                /\ log.offset_id \notin Elems(merged_offset_ids)
                /\ Windowed => PositionsOf(log.offset_id) = {}

\* C8: once the log pass is over, every window offset id that has a materialized
\* log record and is in the segment holds at its position the merged projection
\* of that record (user id and, with include_metadata, metadata and document),
\* and keeps it through the segment pass to the output.
C8_LogPrecedence ==
    ((pc = "hydrate_segment" \/ (pc = "done" /\ Windowed))) =>
        \A log \in mat_records :
            \A i \in PositionsOf(log.offset_id) :
                log.offset_id \in SegmentIds =>
                    /\ ids[i] = MergedUserId(log)
                    /\ include_metadata =>
                          /\ metadata[i].some = (MergedMetadata(log) # {})
                          /\ metadata[i].some => metadata[i].v = MergedMetadata(log)
                          /\ documents[i] = MergedDocument(log)

\* a returned run whose window holds an updated segment row next to a row the
\* segment pass filled
C8_Witness ==
    /\ pc = "done" /\ result = "Ok" /\ include_metadata
    /\ visited # {}
    /\ \E log \in mat_records :
          /\ log.final_operation = "UpdateExisting"
          /\ log.payload = "bare"
          /\ log.offset_id \in SegmentIds
          /\ PositionsOf(log.offset_id) # {}

\* C9: the merged candidate list is the intersection of the two lists when both
\* are present, the one list unchanged when one is present, and with neither the
\* ascending duplicate-free union of the live log offset ids and the segment's
\* offset ids (the live log ids alone without a reader).
C9_MergedCandidates ==
    MergedComputed =>
        LET live == {log.offset_id : log \in {l \in mat_records :
                                                 l.final_operation # "DeleteExisting"}}
        IN  /\ (user_offset_ids.some /\ filtered_offset_ids.some) =>
                  merged_offset_ids =
                      SortedVec(Elems(user_offset_ids.v) \cap Elems(filtered_offset_ids.v))
            /\ (user_offset_ids.some /\ ~filtered_offset_ids.some) =>
                  merged_offset_ids = user_offset_ids.v
            /\ (~user_offset_ids.some /\ filtered_offset_ids.some) =>
                  merged_offset_ids = filtered_offset_ids.v
            /\ NeitherList =>
                  merged_offset_ids = SortedVec(live \cup SegmentIds)

\* a full scan in which the log updates a segment row and adds another
C9_Witness ==
    /\ MergedComputed /\ NeitherList /\ record_segment_reader.some
    /\ \E log \in mat_records :
          log.final_operation = "UpdateExisting" /\ log.offset_id \in SegmentIds
    /\ \E log \in mat_records : log.final_operation = "AddNew"
    /\ Len(merged_offset_ids) = MaxOid

\* the row the run is to give for offset id o: the projection of its log record
\* if it has one, the segment row otherwise
RowOf(o) ==
    IF \E log \in mat_records : log.offset_id = o
    THEN LET log == CHOOSE l \in mat_records : l.offset_id = o
         IN  [id |-> MergedUserId(log),
              metadata |-> IF MergedMetadata(log) = {} THEN None
                           ELSE Some(MergedMetadata(log)),
              document |-> MergedDocument(log)]
    ELSE [id |-> GetUserIdForOffsetId(record_segment_reader.v, o),
          metadata |-> GetDataForOffsetId(record_segment_reader.v, o).metadata,
          document |-> GetDataForOffsetId(record_segment_reader.v, o).document]

\* offset id o has a log record or a segment row
Known(o) == (\E log \in mat_records : log.offset_id = o) \/ o \in SegmentIds

\* C10: in the output, position i of ids (and of metadata and documents) holds the
\* row of the offset id merged[offset + i], whatever the order in which the log
\* records and the index map were iterated; the rows are in ascending offset-id
\* order.
C10_PositionalOrder ==
    (pc = "done" /\ result = "Ok") =>
        /\ Len(ids) = take_count
        /\ \A i \in 1..take_count :
              LET o == merged_offset_ids[skip_count + i]
              IN  Known(o) =>
                     /\ ids[i] = RowOf(o).id
                     /\ include_metadata =>
                           /\ metadata[i].some = RowOf(o).metadata.some
                           /\ metadata[i].some => metadata[i].v = RowOf(o).metadata.v
                           /\ documents[i] = RowOf(o).document
        /\ \A i, j \in 1..take_count :
              (i < j /\ Known(merged_offset_ids[skip_count + i])
                     /\ Known(merged_offset_ids[skip_count + j])) =>
                  ids[i].oid < ids[j].oid

\* a returned window of a segment row followed by a log row
C10_Witness ==
    /\ pc = "done" /\ result = "Ok" /\ include_metadata
    /\ take_count >= 2
    /\ ids[1].src = "segment"
    /\ ids[2].src = "log"


\* the offset ids of the materialized records that are not deletes
LiveIds == {log.offset_id : log \in {l \in mat_records :
                                        l.final_operation # "DeleteExisting"}}

=============================================================================
